---- MODULE Spec2Model ----
(***************************************************************************)
(* Model of the three-phase load harness tests/hw08_load_mysql.go:         *)
(* main (create / add_items / get_cart phases), runConcurrent, doReq and   *)
(* the record / cartIDs accumulators; and of the statistics functions of   *)
(* tests_analysis/analyze_results.go, which have a specification of their  *)
(* own (the variable an).                                                  *)
(*                                                                         *)
(* Time is not modelled: the run deadline (context.WithTimeout) is the     *)
(* action Deadline, which may fire at any moment of the run; a backoff     *)
(* timer may complete at any moment.  The Timestamp field of a result is   *)
(* left out for the same reason.  The target service is an arbitrary       *)
(* responder: every request draws its answer from a small set.             *)
(***************************************************************************)
EXTENDS Integers, Sequences, FiniteSets, TLC

\* ---------------------------------------------------------------- bounds
MaxN == 2
MaxConc == 2
MaxRetries == 4
MaxUnits == 3
MaxRequests == 5
MaxSamples == 3
MaxLatency == 3
MaxRows == 3
MaxRt == 1
MaxCarts == 1
MaxProducts == 2
MaxQuantity == 2

\* ------------------------------------------------------------- constants
BackoffBaseMs == 100
BackoffCapMs == 800
StatusCreated == 201
StatusNoContent == 204
StatusOK == 200

VARIABLES
  cfg,        \* the parsed flags: base, createN, addN, getN, concurrency, retries
  ctxDone,    \* ctx.Done() is closed (the run deadline has fired)
  mpc,        \* position of main
  phase,      \* which runConcurrent invocation main is in (1, 2, 3)
  li,         \* loop variable i of the current runConcurrent invocation
  sem,        \* per invocation: number of tokens in the sem channel
  wg,         \* per invocation: the WaitGroup counter
  u,          \* per unit <<phase, i>>: the goroutine's position and locals
  results,    \* the results slice
  cartIDs,    \* the cartIDs slice
  fallbackID, \* main's fallbackID
  written,    \* what writeJSONFile wrote (<<>> before the write)
  an,         \* analyze_results.go: the call in progress and its result
  mtx,        \* resultsMu and cartIDsMu (their holders) and, per unit, the slice
              \* an append has read and not yet stored back
  svc         \* dynamodb.go: the stored carts of the service and the add-items
              \* requests its handlers are processing

vars == <<cfg, ctxDone, mpc, phase, li, sem, wg, u, results, cartIDs, fallbackID, written, an, mtx, svc>>

\* the variables of the load harness
hvars == <<cfg, ctxDone, mpc, phase, li, sem, wg, u, results, cartIDs, fallbackID, written, mtx>>

Phases == 1..3
Units == Phases \X (0..(MaxN - 1))

\* ------------------------------------------------------- pure functions

Min(a, b) == IF a < b THEN a ELSE b

RECURSIVE Pow2(_)
Pow2(k) == IF k <= 0 THEN 1 ELSE 2 * Pow2(k - 1)

\* variant: the exponent starts at 1 (delays 200, 400, ...)
BackoffShifted(attempt) == Min(BackoffCapMs, BackoffBaseMs * Pow2(attempt + 1))

\* variant: the ceiling is not applied
BackoffNoCap(attempt) == BackoffBaseMs * Pow2(attempt)

\* sleepMs := int(math.Min(800, 100*math.Pow(2, float64(attempt))))
Backoff(attempt) == Min(BackoffCapMs, BackoffBaseMs * Pow2(attempt))

\* variant: the concurrency is used as given
ClampNone(conc) == conc

\* if conc < 1 { conc = 1 }
Clamp(conc) == IF conc < 1 THEN 1 ELSE conc

\* variant: the channel has one slot too many
SemCapPlusOne(conc) == Clamp(conc) + 1

\* sem := make(chan struct{}, conc), after the clamp
SemCap(conc) == Clamp(conc)

\* variant: the loop stops one attempt early
LoopCondStrict(attempt, retries) == attempt < retries

\* the for-loop condition attempt <= *maxCreateRetries
LoopCond(attempt, retries) == attempt <= retries

\* What the service (or the transport) does with one request.
\*   fail  : client.Do returned an error
\*   code  : resp.StatusCode
\*   ms    : elapsed milliseconds
\*   valid : the body unmarshals into createResp
\*   cart  : the shopping_cart_id of the body
CreateAnswers ==
  { [fail |-> TRUE,  code |-> 201, ms |-> 9, valid |-> TRUE,  cart |-> 7],
    [fail |-> FALSE, code |-> 500, ms |-> 5, valid |-> FALSE, cart |-> 0],
    [fail |-> FALSE, code |-> 201, ms |-> 3, valid |-> FALSE, cart |-> 0],
    [fail |-> FALSE, code |-> 201, ms |-> 4, valid |-> TRUE,  cart |-> 0],
    [fail |-> FALSE, code |-> 201, ms |-> 2, valid |-> TRUE,  cart |-> 7],
    [fail |-> FALSE, code |-> 201, ms |-> 6, valid |-> TRUE,  cart |-> 8] }

ItemAnswers(p) ==
  { [fail |-> TRUE,  code |-> (IF p = 2 THEN 204 ELSE 200), ms |-> 9, valid |-> FALSE, cart |-> 0],
    [fail |-> FALSE, code |-> (IF p = 2 THEN 204 ELSE 200), ms |-> 2, valid |-> FALSE, cart |-> 0],
    [fail |-> FALSE, code |-> 404, ms |-> 1, valid |-> FALSE, cart |-> 0] }

\* doReq: (0, durMs, nil, err) on a transport error, else
\* (resp.StatusCode, durMs, body, nil)
doReq(a) ==
  IF a.fail
    THEN [status |-> 0, dur |-> a.ms, valid |-> FALSE, cart |-> 0, err |-> TRUE]
    ELSE [status |-> a.code, dur |-> a.ms, valid |-> a.valid, cart |-> a.cart, err |-> FALSE]

\* finalOK = (err == nil && status == 201)
CreateStatusOK(r) == ~r.err /\ r.status = StatusCreated

\* variant: any body that parses is accepted
BodyOKAnyID(r) == r.valid

\* json.Unmarshal(b, &cr) == nil && cr.ShoppingCartID > 0
BodyOK(r) == r.valid /\ r.cart > 0

\* variant: anything but a 404 or a 5xx counts as success
ItemOKNot404(p, r) == r.status # 404 /\ r.status < 500

\* variant: every received response counts as success
ItemOKAnyResponse(p, r) == ~r.err

\* ok := (err == nil && status == 204)   /   ok := (err == nil && status == 200)
ItemOK(p, r) == ~r.err /\ r.status = (IF p = 2 THEN StatusNoContent ELSE StatusOK)

OpName(p) == IF p = 1 THEN "create_cart" ELSE IF p = 2 THEN "add_items" ELSE "get_cart"

\* the configured count of a phase
PhaseN(p) == IF p = 1 THEN cfg.createN ELSE IF p = 2 THEN cfg.addN ELSE cfg.getN

\* ---------------------------------------------------------------- state

\* no call of the statistics functions is in progress
NoCall == [pc |-> "none"]

\* the service is not part of the run
NoService == [backend |-> "none"]

\* A unit's locals (create: attempt, finalStatus, finalDur, finalOK, gotID;
\* add/get: status, dur, ok, cid) and its history: tries = doReq calls made,
\* fails = attempts that failed, last = the answer to the latest doReq,
\* sleeps = the backoff delays slept, intr = returned on ctx.Done()
NoAnswer == [fail |-> FALSE, code |-> 0, ms |-> 0, valid |-> FALSE, cart |-> 0]

IdleUnit ==
  [pc |-> "idle", attempt |-> 0, status |-> 0, dur |-> 0, ok |-> FALSE, id |-> 0,
   tries |-> 0, fails |-> 0, last |-> NoAnswer, sleeps |-> <<>>, intr |-> FALSE]

Configs ==
  { c \in [base : {"", "http://svc"}, createN : 0..MaxN, addN : 0..MaxN, getN : 0..MaxN,
           concurrency : 0..MaxConc, retries : 0..MaxRetries] :
      /\ c.createN + c.addN + c.getN <= MaxUnits
      /\ c.createN * (c.retries + 1) + c.addN + c.getN <= MaxRequests }

\* the flags of the runs in which the base URL is set, with the concurrency
\* values below 1 that runConcurrent clamps and at most one retry per create
ConfigsInTime ==
  { c \in [base : {"http://svc"}, createN : 0..MaxN, addN : 0..MaxN, getN : 0..MaxN,
           concurrency : (-1)..MaxConc, retries : 0..Min(1, MaxRetries)] :
      /\ c.createN + c.addN + c.getN <= MaxUnits
      /\ c.createN * (c.retries + 1) + c.addN + c.getN <= MaxRequests }

\* main before its first statement, no goroutine started
\* no unit: the holder of a free mutex
NoUnit == <<0, 0>>

\* both mutexes free and no append in progress.  The runs of Spec take each
\* locked section as one step; SpecLocks below takes them apart.
FreeMutexes ==
  [resultsMu |-> NoUnit, cartIDsMu |-> NoUnit, hdr |-> [x \in Units |-> <<>>]]

InitRun ==
  /\ mtx = FreeMutexes
  /\ ctxDone = FALSE
  /\ mpc = "start"
  /\ phase = 1
  /\ li = 0
  /\ sem = [p \in Phases |-> 0]
  /\ wg = [p \in Phases |-> 0]
  /\ u = [x \in Units |-> IdleUnit]
  /\ results = <<>>
  /\ cartIDs = <<>>
  /\ fallbackID = 0
  /\ written = <<>>

Init ==
  /\ cfg \in Configs
  /\ InitRun
  /\ svc = NoService
  /\ an = NoCall

\* the process is alive: goroutines run only until main returns, calls
\* os.Exit or the runtime aborts the process
Alive == mpc \notin {"done", "exitBase", "exitWrite", "crashed"}

\* the exit status of the ended process (2: abort by the Go runtime)
ExitCode ==
  IF mpc = "done" THEN 0 ELSE IF mpc \in {"exitBase", "exitWrite"} THEN 1 ELSE 2

\* if *base == "" { ...; os.Exit(1) }, else client and ctx are created
CheckBase ==
  /\ mpc = "start"
  /\ mpc' = IF cfg.base = "" THEN "exitBase" ELSE "run"
  /\ UNCHANGED <<cfg, ctxDone, phase, li, sem, wg, u, results, cartIDs, fallbackID, written, an, mtx, svc>>

\* ctx's timeout fires
Deadline ==
  /\ Alive
  /\ mpc # "start"
  /\ ~ctxDone
  /\ ctxDone' = TRUE
  /\ UNCHANGED <<cfg, mpc, phase, li, sem, wg, u, results, cartIDs, fallbackID, written, an, mtx, svc>>

\* where main goes when the runConcurrent invocation of phase p returns
AfterPhase(p) ==
  /\ mpc' = IF p = 1 THEN "fallback" ELSE IF p = 2 THEN "run" ELSE "write"
  /\ phase' = IF p = 1 THEN 2 ELSE 3
  /\ li' = 0

\* position of a fresh unit of phase p: the create loop tests its condition
\* first, the other units call getCartID first
FirstPc(p) ==
  IF p = 1 THEN (IF LoopCond(0, cfg.retries) THEN "req" ELSE "record") ELSE "getid"

\* case sem <- struct{}{}: wg.Add(1); go func(i) {...}(i)
RunConcurrentStart ==
  /\ mpc = "run"
  /\ li < PhaseN(phase)
  /\ sem[phase] < SemCap(cfg.concurrency)
  /\ sem' = [sem EXCEPT ![phase] = @ + 1]
  /\ wg' = [wg EXCEPT ![phase] = @ + 1]
  /\ u' = [u EXCEPT ![<<phase, li>>].pc = FirstPc(phase)]
  /\ li' = li + 1
  /\ UNCHANGED <<cfg, ctxDone, mpc, phase, results, cartIDs, fallbackID, written, an, mtx, svc>>

\* case <-ctx.Done(): return
RunConcurrentCancel ==
  /\ mpc = "run"
  /\ li < PhaseN(phase)
  /\ ctxDone
  /\ AfterPhase(phase)
  /\ UNCHANGED <<cfg, ctxDone, sem, wg, u, results, cartIDs, fallbackID, written, an, mtx, svc>>

\* wg.Wait() returns
RunConcurrentWait ==
  /\ mpc = "run"
  /\ ~(li < PhaseN(phase))
  /\ wg[phase] = 0
  /\ AfterPhase(phase)
  /\ UNCHANGED <<cfg, ctxDone, sem, wg, u, results, cartIDs, fallbackID, written, an, mtx, svc>>

\* variant: the run skips the later phases when no cart was created
FallbackCheckAbort ==
  /\ mpc = "fallback"
  /\ mpc' = IF Len(cartIDs) = 0 THEN "write" ELSE "run"
  /\ UNCHANGED <<cfg, ctxDone, phase, li, sem, wg, u, results, cartIDs, fallbackID, written, an, mtx, svc>>

\* needFallback := len(cartIDs) == 0 (under cartIDsMu)
FallbackCheck ==
  /\ mpc = "fallback"
  /\ mpc' = IF Len(cartIDs) = 0 THEN "fallbackReq" ELSE "run"
  /\ UNCHANGED <<cfg, ctxDone, phase, li, sem, wg, u, results, cartIDs, fallbackID, written, an, mtx, svc>>

\* variant: the fallback identifier is also put into the pool
FallbackCreatePooling ==
  /\ mpc = "fallbackReq"
  /\ \E a \in CreateAnswers :
       LET r == doReq(a)
           good == CreateStatusOK(r) /\ BodyOK(r)
       IN  /\ fallbackID' = IF good THEN r.cart ELSE fallbackID
           /\ cartIDs' = IF good THEN Append(cartIDs, r.cart) ELSE cartIDs
  /\ mpc' = "run"
  /\ UNCHANGED <<cfg, ctxDone, phase, li, sem, wg, u, results, written, an, mtx, svc>>

\* the untracked create: one doReq, fallbackID set on 201 with a positive id
FallbackCreate ==
  /\ mpc = "fallbackReq"
  /\ \E a \in CreateAnswers :
       LET r == doReq(a) IN
         fallbackID' = IF CreateStatusOK(r) /\ BodyOK(r) THEN r.cart ELSE fallbackID
  /\ mpc' = "run"
  /\ UNCHANGED <<cfg, ctxDone, phase, li, sem, wg, u, results, cartIDs, written, an, mtx, svc>>

\* ------------------------------------------------------ create unit (fn)

\* variant: only successful operations are appended
RecordOnlyOK(p, i) ==
  /\ results' = IF u[<<p, i>>].ok
                  THEN Append(results,
                         [op |-> OpName(p), rt |-> u[<<p, i>>].dur, ok |-> u[<<p, i>>].ok,
                          status |-> u[<<p, i>>].status, by |-> i])
                  ELSE results

\* variant: the result is appended twice
RecordTwice(p, i) ==
  LET r == [op |-> OpName(p), rt |-> u[<<p, i>>].dur, ok |-> u[<<p, i>>].ok,
            status |-> u[<<p, i>>].status, by |-> i]
  IN  results' = Append(Append(results, r), r)

\* record(op, status, durMs, ok): the append under resultsMu.  The field by
\* is history (the index of the appending unit), not part of a result.
Record(p, i) ==
  /\ results' = Append(results,
                  [op |-> OpName(p), rt |-> u[<<p, i>>].dur, ok |-> u[<<p, i>>].ok,
                   status |-> u[<<p, i>>].status, by |-> i])

\* variant: a 201 ends the loop whatever its body
CreateAttemptNoBodyRetry(i) ==
  /\ Alive
  /\ u[<<1, i>>].pc = "req"
  /\ \E a \in CreateAnswers :
       LET r == doReq(a)
           good == CreateStatusOK(r) /\ BodyOK(r)
       IN  u' = [u EXCEPT ![<<1, i>>] =
                   [@ EXCEPT !.status = r.status,
                             !.dur = r.dur,
                             !.ok = good,
                             !.id = IF good THEN r.cart ELSE @,
                             !.tries = @ + 1,
                             !.last = a,
                             !.fails = IF good THEN @ ELSE @ + 1,
                             !.pc = IF CreateStatusOK(r) THEN "record" ELSE "sleep"]]
  /\ UNCHANGED <<cfg, ctxDone, mpc, phase, li, sem, wg, results, cartIDs, fallbackID, written, an, mtx, svc>>

\* one iteration of the retry loop up to the break or the backoff select
CreateAttempt(i) ==
  /\ Alive
  /\ u[<<1, i>>].pc = "req"
  /\ \E a \in CreateAnswers :
       LET r == doReq(a)
           good == CreateStatusOK(r) /\ BodyOK(r)
       IN  u' = [u EXCEPT ![<<1, i>>] =
                   [@ EXCEPT !.status = r.status,
                             !.dur = r.dur,
                             !.ok = good,
                             !.id = IF good THEN r.cart ELSE @,
                             !.tries = @ + 1,
                             !.last = a,
                             !.fails = IF good THEN @ ELSE @ + 1,
                             !.pc = IF good THEN "record" ELSE "sleep"]]
  /\ UNCHANGED <<cfg, ctxDone, mpc, phase, li, sem, wg, results, cartIDs, fallbackID, written, an, mtx, svc>>

\* variant: every failed attempt is recorded before the backoff
CreateBackoffRecording(i) ==
  /\ Alive
  /\ u[<<1, i>>].pc = "sleep"
  /\ Record(1, i)
  /\ u' = [u EXCEPT ![<<1, i>>] =
             [@ EXCEPT !.sleeps = Append(@, Backoff(u[<<1, i>>].attempt)),
                       !.attempt = @ + 1,
                       !.pc = IF LoopCond(u[<<1, i>>].attempt + 1, cfg.retries)
                                THEN "req" ELSE "record"]]
  /\ UNCHANGED <<cfg, ctxDone, mpc, phase, li, sem, wg, cartIDs, fallbackID, written, an, mtx, svc>>

\* case <-time.After(sleepMs): attempt++ and the loop condition
CreateBackoff(i) ==
  /\ Alive
  /\ u[<<1, i>>].pc = "sleep"
  /\ u' = [u EXCEPT ![<<1, i>>] =
             [@ EXCEPT !.sleeps = Append(@, Backoff(u[<<1, i>>].attempt)),
                       !.attempt = @ + 1,
                       !.pc = IF LoopCond(u[<<1, i>>].attempt + 1, cfg.retries)
                                THEN "req" ELSE "record"]]
  /\ UNCHANGED <<cfg, ctxDone, mpc, phase, li, sem, wg, results, cartIDs, fallbackID, written, an, mtx, svc>>

\* variant: the interrupted unit records its last attempt before returning
CreateCancelledRecording(i) ==
  /\ Alive
  /\ u[<<1, i>>].pc = "sleep"
  /\ ctxDone
  /\ Record(1, i)
  /\ u' = [u EXCEPT ![<<1, i>>] = [@ EXCEPT !.intr = TRUE, !.pc = "ret"]]
  /\ UNCHANGED <<cfg, ctxDone, mpc, phase, li, sem, wg, cartIDs, fallbackID, written, an, mtx, svc>>

\* case <-ctx.Done(): return
CreateCancelled(i) ==
  /\ Alive
  /\ u[<<1, i>>].pc = "sleep"
  /\ ctxDone
  /\ u' = [u EXCEPT ![<<1, i>>] = [@ EXCEPT !.intr = TRUE, !.pc = "ret"]]
  /\ UNCHANGED <<cfg, ctxDone, mpc, phase, li, sem, wg, results, cartIDs, fallbackID, written, an, mtx, svc>>

\* variant: the identifier is appended whatever the outcome
CreateRecordAlwaysPool(i) ==
  /\ Alive
  /\ u[<<1, i>>].pc = "record"
  /\ Record(1, i)
  /\ u' = [u EXCEPT ![<<1, i>>].pc = "pool"]
  /\ UNCHANGED <<cfg, ctxDone, mpc, phase, li, sem, wg, cartIDs, fallbackID, written, an, mtx, svc>>

\* record("create_cart", finalStatus, finalDur, finalOK)
CreateRecord(i) ==
  /\ Alive
  /\ u[<<1, i>>].pc = "record"
  /\ Record(1, i)
  /\ u' = [u EXCEPT ![<<1, i>>].pc =
             IF u[<<1, i>>].ok /\ u[<<1, i>>].id > 0 THEN "pool" ELSE "ret"]
  /\ UNCHANGED <<cfg, ctxDone, mpc, phase, li, sem, wg, cartIDs, fallbackID, written, an, mtx, svc>>

\* cartIDs = append(cartIDs, gotID) under cartIDsMu
CreateAppendID(i) ==
  /\ Alive
  /\ u[<<1, i>>].pc = "pool"
  /\ cartIDs' = Append(cartIDs, u[<<1, i>>].id)
  /\ u' = [u EXCEPT ![<<1, i>>].pc = "ret"]
  /\ UNCHANGED <<cfg, ctxDone, mpc, phase, li, sem, wg, results, fallbackID, written, an, mtx, svc>>

\* ------------------------------------------- add_items / get_cart unit

\* variant: the index is taken one too far before the modulo
getCartIDShifted(i) ==
  IF Len(cartIDs) > 0 THEN cartIDs[((i + 1) % Len(cartIDs)) + 1] ELSE fallbackID

\* getCartID(i): cartIDs[i%len(cartIDs)] or fallbackID (TLA+ sequences start at 1)
getCartID(i) ==
  IF Len(cartIDs) > 0 THEN cartIDs[(i % Len(cartIDs)) + 1] ELSE fallbackID

\* cid := getCartID(i)
ItemGetCartID(p, i) ==
  /\ Alive
  /\ p \in {2, 3}
  /\ u[<<p, i>>].pc = "getid"
  /\ u' = [u EXCEPT ![<<p, i>>] = [@ EXCEPT !.id = getCartID(i), !.pc = "req"]]
  /\ UNCHANGED <<cfg, ctxDone, mpc, phase, li, sem, wg, results, cartIDs, fallbackID, written, an, mtx, svc>>

\* variant: a failed request is issued again
ItemRequestRetrying(p, i) ==
  /\ Alive
  /\ p \in {2, 3}
  /\ u[<<p, i>>].pc = "req"
  /\ \E a \in ItemAnswers(p) :
       LET r == doReq(a) IN
         u' = [u EXCEPT ![<<p, i>>] =
                 [@ EXCEPT !.status = r.status, !.dur = r.dur, !.ok = ItemOK(p, r),
                           !.tries = @ + 1, !.last = a,
                           !.pc = IF ItemOK(p, r) THEN "record" ELSE "req"]]
  /\ UNCHANGED <<cfg, ctxDone, mpc, phase, li, sem, wg, results, cartIDs, fallbackID, written, an, mtx, svc>>

\* status, dur, _, err := doReq(...); ok := (err == nil && status == expected)
ItemRequest(p, i) ==
  /\ Alive
  /\ p \in {2, 3}
  /\ u[<<p, i>>].pc = "req"
  /\ \E a \in ItemAnswers(p) :
       LET r == doReq(a) IN
         u' = [u EXCEPT ![<<p, i>>] =
                 [@ EXCEPT !.status = r.status, !.dur = r.dur, !.ok = ItemOK(p, r),
                           !.tries = @ + 1, !.last = a, !.pc = "record"]]
  /\ UNCHANGED <<cfg, ctxDone, mpc, phase, li, sem, wg, results, cartIDs, fallbackID, written, an, mtx, svc>>

\* record("add_items", ...) / record("get_cart", ...)
ItemRecord(p, i) ==
  /\ Alive
  /\ p \in {2, 3}
  /\ u[<<p, i>>].pc = "record"
  /\ Record(p, i)
  /\ u' = [u EXCEPT ![<<p, i>>].pc = "ret"]
  /\ UNCHANGED <<cfg, ctxDone, mpc, phase, li, sem, wg, cartIDs, fallbackID, written, an, mtx, svc>>

\* ------------------------------------------------- goroutine epilogue

\* defer func() { <-sem }()
ReleaseSem(p, i) ==
  /\ Alive
  /\ u[<<p, i>>].pc = "ret"
  /\ sem' = [sem EXCEPT ![p] = @ - 1]
  /\ u' = [u EXCEPT ![<<p, i>>].pc = "rel"]
  /\ UNCHANGED <<cfg, ctxDone, mpc, phase, li, wg, results, cartIDs, fallbackID, written, an, mtx, svc>>

\* defer wg.Done()
WgDone(p, i) ==
  /\ Alive
  /\ u[<<p, i>>].pc = "rel"
  /\ wg' = [wg EXCEPT ![p] = @ - 1]
  /\ u' = [u EXCEPT ![<<p, i>>].pc = "done"]
  /\ UNCHANGED <<cfg, ctxDone, mpc, phase, li, sem, results, cartIDs, fallbackID, written, an, mtx, svc>>

\* writeJSONFile(*out, results) succeeds, then main returns
WriteOutput ==
  /\ mpc = "write"
  /\ written' = results
  /\ mpc' = "done"
  /\ UNCHANGED <<cfg, ctxDone, phase, li, sem, wg, u, results, cartIDs, fallbackID, an, mtx, svc>>

\* writeJSONFile returns an error (os.Create or Encode failed): os.Exit(1)
WriteOutputFails ==
  /\ mpc = "write"
  /\ mpc' = "exitWrite"
  /\ UNCHANGED <<cfg, ctxDone, phase, li, sem, wg, u, results, cartIDs, fallbackID, written, an, mtx, svc>>

\* main reads the slice results without holding resultsMu.  A unit that
\* runConcurrent did not wait for may be inside record() at that moment: the
\* read and the append are a data race.  Reading the value before or after
\* the append is covered by the interleavings of WriteOutput and Record; the
\* third outcome is a torn slice header (old array, new length), which has
\* no defined result and is modelled as the abort of the process.
WriteOutputRace ==
  /\ mpc = "write"
  /\ \E x \in Units : u[x].pc = "record"
  /\ mpc' = "crashed"
  /\ UNCHANGED <<cfg, ctxDone, phase, li, sem, wg, u, results, cartIDs, fallbackID, written, an, mtx, svc>>

Next ==
  \/ CheckBase
  \/ Deadline
  \/ RunConcurrentStart
  \/ RunConcurrentCancel
  \/ RunConcurrentWait
  \/ FallbackCheck
  \/ FallbackCreate
  \/ \E i \in 0..(MaxN - 1) : CreateAttempt(i)
  \/ \E i \in 0..(MaxN - 1) : CreateBackoff(i)
  \/ \E i \in 0..(MaxN - 1) : CreateCancelled(i)
  \/ \E i \in 0..(MaxN - 1) : CreateRecord(i)
  \/ \E i \in 0..(MaxN - 1) : CreateAppendID(i)
  \/ \E p \in {2, 3}, i \in 0..(MaxN - 1) : ItemGetCartID(p, i)
  \/ \E p \in {2, 3}, i \in 0..(MaxN - 1) : ItemRequest(p, i)
  \/ \E p \in {2, 3}, i \in 0..(MaxN - 1) : ItemRecord(p, i)
  \/ \E p \in Phases, i \in 0..(MaxN - 1) : ReleaseSem(p, i)
  \/ \E p \in Phases, i \in 0..(MaxN - 1) : WgDone(p, i)
  \/ WriteOutput
  \/ WriteOutputFails
  \/ WriteOutputRace

Spec == Init /\ [][Next]_vars

\* ------------------------------------------ runs the deadline leaves alone

InitInTime ==
  /\ cfg \in ConfigsInTime
  /\ InitRun
  /\ svc = NoService
  /\ an = NoCall

\* the steps of a run whose deadline does not fire: every goroutine and
\* main are scheduled again and again, every timer fires
NextInTime ==
  \/ CheckBase
  \/ RunConcurrentStart
  \/ RunConcurrentWait
  \/ FallbackCheck
  \/ FallbackCreate
  \/ \E i \in 0..(MaxN - 1) : CreateAttempt(i)
  \/ \E i \in 0..(MaxN - 1) : CreateBackoff(i)
  \/ \E i \in 0..(MaxN - 1) : CreateRecord(i)
  \/ \E i \in 0..(MaxN - 1) : CreateAppendID(i)
  \/ \E p \in {2, 3}, i \in 0..(MaxN - 1) : ItemGetCartID(p, i)
  \/ \E p \in {2, 3}, i \in 0..(MaxN - 1) : ItemRequest(p, i)
  \/ \E p \in {2, 3}, i \in 0..(MaxN - 1) : ItemRecord(p, i)
  \/ \E p \in Phases, i \in 0..(MaxN - 1) : ReleaseSem(p, i)
  \/ \E p \in Phases, i \in 0..(MaxN - 1) : WgDone(p, i)
  \/ WriteOutput
  \/ WriteOutputFails

SpecInTime == InitInTime /\ [][NextInTime]_vars /\ WF_vars(NextInTime)

\* ---- the locked sections, step by step ----
\*
\* The runs of the harness with record(), the pool append, getCartID and the
\* fallback check taken apart into Lock, the body and Unlock, and an append
\* x = append(x, v) into the read of the slice and the store of the grown
\* slice.  Everything else is as in Spec.  Creates are not retried here and
\* the concurrency is the largest one, with which the units contend most.

ConfigsLocks ==
  { c \in Configs : c.base # "" /\ c.retries = 0 /\ c.concurrency = MaxConc }

InitLocks ==
  /\ cfg \in ConfigsLocks
  /\ InitRun
  /\ svc = NoService
  /\ an = NoCall

\* variant: Lock returns although the mutex is held
LockResultsMuNoWait(x) ==
  /\ Alive
  /\ u[x].pc = "record"
  /\ mtx' = [mtx EXCEPT !.resultsMu = x]
  /\ u' = [u EXCEPT ![x].pc = "recIn"]
  /\ UNCHANGED <<cfg, ctxDone, mpc, phase, li, sem, wg, results, cartIDs, fallbackID, written, an, svc>>

\* resultsMu.Lock() returns once the mutex is free
LockResultsMu(x) ==
  /\ Alive
  /\ u[x].pc = "record"
  /\ mtx.resultsMu = NoUnit
  /\ mtx' = [mtx EXCEPT !.resultsMu = x]
  /\ u' = [u EXCEPT ![x].pc = "recIn"]
  /\ UNCHANGED <<cfg, ctxDone, mpc, phase, li, sem, wg, results, cartIDs, fallbackID, written, an, svc>>

\* append(results, ...): the slice is read
AppendResultRead(x) ==
  /\ Alive
  /\ u[x].pc = "recIn"
  /\ mtx' = [mtx EXCEPT !.hdr[x] = results]
  /\ u' = [u EXCEPT ![x].pc = "recHdr"]
  /\ UNCHANGED <<cfg, ctxDone, mpc, phase, li, sem, wg, results, cartIDs, fallbackID, written, an, svc>>

\* results = ...: the grown slice is stored
AppendResultStore(x) ==
  /\ Alive
  /\ u[x].pc = "recHdr"
  /\ results' = Append(mtx.hdr[x],
                  [op |-> OpName(x[1]), rt |-> u[x].dur, ok |-> u[x].ok,
                   status |-> u[x].status, by |-> x[2]])
  /\ mtx' = [mtx EXCEPT !.hdr[x] = <<>>]
  /\ u' = [u EXCEPT ![x].pc = "recOut"]
  /\ UNCHANGED <<cfg, ctxDone, mpc, phase, li, sem, wg, cartIDs, fallbackID, written, an, svc>>

\* resultsMu.Unlock(); a create unit goes on to the pool when it succeeded
UnlockResultsMu(x) ==
  /\ Alive
  /\ u[x].pc = "recOut"
  /\ mtx' = [mtx EXCEPT !.resultsMu = NoUnit]
  /\ u' = [u EXCEPT ![x].pc = IF x[1] = 1 /\ u[x].ok /\ u[x].id > 0 THEN "pool" ELSE "ret"]
  /\ UNCHANGED <<cfg, ctxDone, mpc, phase, li, sem, wg, results, cartIDs, fallbackID, written, an, svc>>

\* cartIDsMu.Lock() returns once the mutex is free: in the create unit
\* before the append, in getCartID before the read
LockCartIDsMu(x) ==
  /\ Alive
  /\ u[x].pc \in {"pool", "getid"}
  /\ mtx.cartIDsMu = NoUnit
  /\ mtx' = [mtx EXCEPT !.cartIDsMu = x]
  /\ u' = [u EXCEPT ![x].pc = IF u[x].pc = "pool" THEN "poolIn" ELSE "idIn"]
  /\ UNCHANGED <<cfg, ctxDone, mpc, phase, li, sem, wg, results, cartIDs, fallbackID, written, an, svc>>

\* append(cartIDs, gotID): the slice is read
AppendIDRead(x) ==
  /\ Alive
  /\ u[x].pc = "poolIn"
  /\ mtx' = [mtx EXCEPT !.hdr[x] = cartIDs]
  /\ u' = [u EXCEPT ![x].pc = "poolHdr"]
  /\ UNCHANGED <<cfg, ctxDone, mpc, phase, li, sem, wg, results, cartIDs, fallbackID, written, an, svc>>

\* cartIDs = ...: the grown slice is stored
AppendIDStore(x) ==
  /\ Alive
  /\ u[x].pc = "poolHdr"
  /\ cartIDs' = Append(mtx.hdr[x], u[x].id)
  /\ mtx' = [mtx EXCEPT !.hdr[x] = <<>>]
  /\ u' = [u EXCEPT ![x].pc = "poolOut"]
  /\ UNCHANGED <<cfg, ctxDone, mpc, phase, li, sem, wg, results, fallbackID, written, an, svc>>

\* the body of getCartID, the mutex held
ReadID(x) ==
  /\ Alive
  /\ u[x].pc = "idIn"
  /\ u' = [u EXCEPT ![x] = [@ EXCEPT !.id = getCartID(x[2]), !.pc = "idOut"]]
  /\ UNCHANGED <<cfg, ctxDone, mpc, phase, li, sem, wg, results, cartIDs, fallbackID, written, an, mtx, svc>>

\* cartIDsMu.Unlock(): the create closure returns, getCartID returns to the
\* request of its unit
UnlockCartIDsMu(x) ==
  /\ Alive
  /\ u[x].pc \in {"poolOut", "idOut"}
  /\ mtx' = [mtx EXCEPT !.cartIDsMu = NoUnit]
  /\ u' = [u EXCEPT ![x].pc = IF u[x].pc = "poolOut" THEN "ret" ELSE "req"]
  /\ UNCHANGED <<cfg, ctxDone, mpc, phase, li, sem, wg, results, cartIDs, fallbackID, written, an, svc>>

\* main's fallback check: cartIDsMu.Lock(); needFallback := len(cartIDs) == 0;
\* cartIDsMu.Unlock()
FallbackCheckLocked ==
  /\ mtx.cartIDsMu = NoUnit
  /\ FallbackCheck

NextLocks ==
  \/ CheckBase
  \/ Deadline
  \/ RunConcurrentStart
  \/ RunConcurrentCancel
  \/ RunConcurrentWait
  \/ FallbackCheckLocked
  \/ FallbackCreate
  \/ \E i \in 0..(MaxN - 1) : CreateAttempt(i)
  \/ \E i \in 0..(MaxN - 1) : CreateBackoff(i)
  \/ \E i \in 0..(MaxN - 1) : CreateCancelled(i)
  \/ \E p \in {2, 3}, i \in 0..(MaxN - 1) : ItemRequest(p, i)
  \/ \E p \in Phases, i \in 0..(MaxN - 1) : ReleaseSem(p, i)
  \/ \E p \in Phases, i \in 0..(MaxN - 1) : WgDone(p, i)
  \/ \E x \in Units : LockResultsMu(x)
  \/ \E x \in Units : AppendResultRead(x)
  \/ \E x \in Units : AppendResultStore(x)
  \/ \E x \in Units : UnlockResultsMu(x)
  \/ \E x \in Units : LockCartIDsMu(x)
  \/ \E x \in Units : AppendIDRead(x)
  \/ \E x \in Units : AppendIDStore(x)
  \/ \E x \in Units : ReadID(x)
  \/ \E x \in Units : UnlockCartIDsMu(x)
  \/ WriteOutput
  \/ WriteOutputFails

SpecLocks == InitLocks /\ [][NextLocks]_vars

\* ------------------------------------- analyze_results.go: pct

\* Latencies are whole milliseconds (the harness writes
\* float64(time.Since(start).Milliseconds())) and percentiles whole numbers;
\* pct is computed in exact arithmetic and its value is given in hundredths
\* of a millisecond, so that the interpolation stays within the integers.
\* The rounding of float64 is not modelled.

\* the sorted sample sequences (loadAndAnalyze sorts before pct is called)
SortedSamples ==
  UNION { { vs \in [1..n -> 0..MaxLatency] : \A j \in 1..(n - 1) : vs[j] <= vs[j + 1] } :
          n \in 0..MaxSamples }

\* the percentiles asked for, with values outside [0, 100] that pct clamps
Percents == (-10)..110

\* variant: p is used as given, without the clamp to [0, 100]; int(rank)
\* truncates towards zero
pctNoClamp(vs, p) ==
  IF Len(vs) = 0 THEN -100
  ELSE LET rank100 == p * (Len(vs) - 1)
           i == IF rank100 >= 0 THEN rank100 \div 100 ELSE -((-rank100) \div 100)
           f100 == rank100 - 100 * i
       IN  IF i + 1 < Len(vs)
             THEN 100 * vs[i + 1] + f100 * (vs[i + 2] - vs[i + 1])
             ELSE 100 * vs[i + 1]

\* variant: the interpolation goes the wrong way
pctFlipped(vs, p) ==
  IF Len(vs) = 0 THEN -100
  ELSE LET q == IF p < 0 THEN 0 ELSE IF p > 100 THEN 100 ELSE p
           rank100 == q * (Len(vs) - 1)
           i == rank100 \div 100
           f100 == rank100 % 100
       IN  IF i + 1 < Len(vs)
             THEN 100 * vs[i + 1] - f100 * (vs[i + 2] - vs[i + 1])
             ELSE 100 * vs[i + 1]

\* pct(vs, p), in hundredths: rank := p/100 * (len-1); i := int(rank);
\* f := rank - i; vs[i] + f*(vs[i+1]-vs[i]) if i+1 < len, else vs[i]
\* (TLA+ sequences start at 1)
pct(vs, p) ==
  IF Len(vs) = 0 THEN -100
  ELSE LET q == IF p < 0 THEN 0 ELSE IF p > 100 THEN 100 ELSE p
           rank100 == q * (Len(vs) - 1)
           i == rank100 \div 100
           f100 == rank100 % 100
       IN  IF i + 1 < Len(vs)
             THEN 100 * vs[i + 1] + f100 * (vs[i + 2] - vs[i + 1])
             ELSE 100 * vs[i + 1]

\* the sum of the samples from index k on: for _, x := range vs { s += x }
RECURSIVE SumFrom(_, _)
SumFrom(vs, k) == IF k > Len(vs) THEN 0 ELSE vs[k] + SumFrom(vs, k + 1)

\* variant: the first sample is left out of the sum
meanSkipFirst(vs) ==
  IF Len(vs) = 0 THEN [s |-> -1, n |-> 1]
  ELSE [s |-> SumFrom(vs, 2), n |-> Len(vs)]

\* mean(vs) as the exact fraction s / n: -1 for no sample, else the sum
\* divided by the number of samples
mean(vs) ==
  IF Len(vs) = 0 THEN [s |-> -1, n |-> 1]
  ELSE [s |-> SumFrom(vs, 1), n |-> Len(vs)]

\* the harness does not run while the analysis does
NoRunConfig ==
  [base |-> "", createN |-> 0, addN |-> 0, getN |-> 0, concurrency |-> 0, retries |-> 0]

InitStats ==
  /\ cfg = NoRunConfig
  /\ InitRun
  /\ svc = NoService
  /\ an \in [pc : {"pct"}, vs : SortedSamples, p : Percents, out : {0}]
            \cup [pc : {"mean"}, vs : SortedSamples, out : {0}]

\* a call pct(vs, p) returns
PctCall ==
  /\ an.pc = "pct"
  /\ an' = [an EXCEPT !.pc = "pctDone", !.out = pct(an.vs, an.p)]
  /\ UNCHANGED <<hvars, svc>>

\* a call mean(vs) returns
MeanCall ==
  /\ an.pc = "mean"
  /\ an' = [an EXCEPT !.pc = "meanDone", !.out = mean(an.vs)]
  /\ UNCHANGED <<hvars, svc>>

NextStats ==
  \/ PctCall
  \/ MeanCall

SpecStats == InitStats /\ [][NextStats]_vars

\* ---- printComparison: the winner summary ----

\* the success latencies of one operation in one run, as loadAndAnalyze
\* leaves them (sorted); at most two samples each keep the comparison of
\* three operations small
CompareSamples == { vs \in SortedSamples : Len(vs) <= Min(2, MaxSamples) }

\* the operations compared, in the order of the loop
Operations == <<"create_cart", "add_items", "get_cart">>

\* variant: any difference decides, there is no tie band
ClassifyNoBand(mysqlAvg, dynamoAvg) ==
  LET diffN == dynamoAvg.s * mysqlAvg.n - mysqlAvg.s * dynamoAvg.n
  IN  IF diffN < 0 THEN "dynamo"
      ELSE IF diffN > 0 THEN "mysql"
      ELSE "tie"

\* diff := dynamoAvg - mysqlAvg; diff < -1: DynamoDB; diff > 1: MySQL; else
\* tie.  The averages are fractions s / n with n > 0, so diff is
\* diffN / diffD with diffD > 0.
Classify(mysqlAvg, dynamoAvg) ==
  LET diffN == dynamoAvg.s * mysqlAvg.n - mysqlAvg.s * dynamoAvg.n
      diffD == mysqlAvg.n * dynamoAvg.n
  IN  IF diffN < -diffD THEN "dynamo"
      ELSE IF diffN > diffD THEN "mysql"
      ELSE "tie"

InitCompare ==
  /\ cfg = NoRunConfig
  /\ InitRun
  /\ svc = NoService
  /\ an \in [pc : {"winner"}, k : {1}, my : CompareSamples, dy : CompareSamples,
              mysqlWins : {0}, dynamoWins : {0}, ties : {0}, winner : {""}]

\* the body of the loop for operation k: the two means, diff and the counter
WinnerClassify ==
  /\ an.pc = "winner"
  /\ LET w == Classify(mean(an.my), mean(an.dy))
     IN  an' = [an EXCEPT !.pc = "classified",
                          !.winner = w,
                          !.dynamoWins = IF w = "dynamo" THEN @ + 1 ELSE @,
                          !.mysqlWins = IF w = "mysql" THEN @ + 1 ELSE @,
                          !.ties = IF w = "tie" THEN @ + 1 ELSE @]
  /\ UNCHANGED <<hvars, svc>>

\* the loop goes on to the next operation, with its own samples
WinnerNextOp ==
  /\ an.pc = "classified"
  /\ an.k < Len(Operations)
  /\ \E my \in CompareSamples, dy \in CompareSamples :
       an' = [an EXCEPT !.pc = "winner", !.k = @ + 1, !.my = my, !.dy = dy]
  /\ UNCHANGED <<hvars, svc>>

\* after the last operation the three counters are printed
WinnerPrint ==
  /\ an.pc = "classified"
  /\ an.k = Len(Operations)
  /\ an' = [an EXCEPT !.pc = "winnerDone"]
  /\ UNCHANGED <<hvars, svc>>

NextCompare ==
  \/ WinnerClassify
  \/ WinnerNextOp
  \/ WinnerPrint

SpecCompare == InitCompare /\ [][NextCompare]_vars

\* ---- loadAndAnalyze ----

\* the operation names of the rows: the three known ones and another one
RowOps == {"create_cart", "add_items", "get_cart", "other"}

\* a decoded row: operation, response_time and success (status_code and
\* timestamp are not used)
Rows == [op : RowOps, rt : 0..MaxRt, ok : BOOLEAN]

RowSeqs == UNION { [1..n -> Rows] : n \in 0..MaxRows }

\* &agg{}
EmptyAgg == [countAll |-> 0, countOK |-> 0, rtAll |-> <<>>, rtSuccess |-> <<>>]

\* v put into the ascending sequence s at its place
RECURSIVE InsertSorted(_, _)
InsertSorted(s, v) ==
  IF s = <<>> THEN <<v>>
  ELSE IF v <= Head(s) THEN <<v>> \o s
  ELSE <<Head(s)>> \o InsertSorted(Tail(s), v)

\* sort.Float64s(s): the elements of s in ascending order
RECURSIVE SortFloat64s(_)
SortFloat64s(s) == IF s = <<>> THEN <<>> ELSE InsertSorted(SortFloat64s(Tail(s)), Head(s))

\* variant: a failed row is counted as a success too
AddRowCountingFailures(a, r) ==
  [countAll |-> a.countAll + 1,
   countOK |-> a.countOK + 1,
   rtAll |-> Append(a.rtAll, r.rt),
   rtSuccess |-> IF r.ok THEN Append(a.rtSuccess, r.rt) ELSE a.rtSuccess]

\* what the loop body does to an aggregate: countAll++, the latency appended
\* to rtAll and, for a success, countOK++ and the latency appended to rtSuccess
AddRow(a, r) ==
  [countAll |-> a.countAll + 1,
   countOK |-> IF r.ok THEN a.countOK + 1 ELSE a.countOK,
   rtAll |-> Append(a.rtAll, r.rt),
   rtSuccess |-> IF r.ok THEN Append(a.rtSuccess, r.rt) ELSE a.rtSuccess]

\* the rows decoded, byOp with its three initial entries, total empty
InitLoad ==
  /\ cfg = NoRunConfig
  /\ InitRun
  /\ svc = NoService
  /\ an \in [pc : {"load"}, rows : RowSeqs, k : {1},
              byOp : {[o \in {"create_cart", "add_items", "get_cart"} |-> EmptyAgg]},
              total : {EmptyAgg}]

\* one iteration of for _, r := range rows: the aggregate of the row's
\* operation, made on first sight, and total
LoadRow ==
  /\ an.pc = "load"
  /\ an.k <= Len(an.rows)
  /\ LET r == an.rows[an.k]
         a == IF r.op \in DOMAIN an.byOp THEN an.byOp[r.op] ELSE EmptyAgg
     IN  an' = [an EXCEPT !.k = @ + 1,
                          !.byOp = [o \in (DOMAIN an.byOp) \cup {r.op} |->
                                      IF o = r.op THEN AddRow(a, r) ELSE an.byOp[o]],
                          !.total = AddRow(an.total, r)]
  /\ UNCHANGED <<hvars, svc>>

\* the loop is over: every aggregate's samples are sorted and returned
LoadSort ==
  /\ an.pc = "load"
  /\ an.k > Len(an.rows)
  /\ LET sorted(a) == [a EXCEPT !.rtSuccess = SortFloat64s(@), !.rtAll = SortFloat64s(@)]
     IN  an' = [an EXCEPT !.pc = "loaded",
                          !.byOp = [o \in DOMAIN an.byOp |-> sorted(an.byOp[o])],
                          !.total = sorted(an.total)]
  /\ UNCHANGED <<hvars, svc>>

NextLoad ==
  \/ LoadRow
  \/ LoadSort

SpecLoad == InitLoad /\ [][NextLoad]_vars

\* ------------------------------------------------------------ properties

Idx == 0..(MaxN - 1)

\* fn(i) of phase p has been entered and has not returned
Executing(p, i) == u[<<p, i>>].pc \in {"getid", "req", "sleep", "record", "pool"}

\* fn(i) of phase p has returned
Returned(p, i) == u[<<p, i>>].pc \in {"ret", "rel", "done"}

\* number of records of a sequence tagged op
CountOp(rs, op) == Cardinality({k \in 1..Len(rs) : rs[k].op = op})

\* the positions of the records appended by unit i of phase p
RecsOf(p, i) == {k \in 1..Len(results) : results[k].op = OpName(p) /\ results[k].by = i}

\* C1: a run in which the deadline does not fire ends with exactly
\* createN + addN + getN records written, createN of them tagged create_cart,
\* addN add_items and getN get_cart.
C1_ExactCounts ==
  (mpc = "done" /\ ~ctxDone) =>
    /\ Len(written) = cfg.createN + cfg.addN + cfg.getN
    /\ CountOp(written, "create_cart") = cfg.createN
    /\ CountOp(written, "add_items") = cfg.addN
    /\ CountOp(written, "get_cart") = cfg.getN

\* a run without deadline has ended after a retried create and with failures
C1_Witness ==
  /\ mpc = "done" /\ ~ctxDone
  /\ cfg.createN >= 1 /\ cfg.addN >= 1 /\ cfg.getN >= 1
  /\ \E i \in Idx : u[<<1, i>>].tries >= 2
  /\ \E k \in 1..Len(written) : ~written[k].ok
  /\ \E k \in 1..Len(written) : written[k].status = 0

\* C2: for a concurrency c >= 1, at every moment of a runConcurrent invocation
\* at most c of its units have been started and have not returned.
C2_AtMostC ==
  cfg.concurrency >= 1 =>
    \A p \in Phases : Cardinality({i \in Idx : Executing(p, i)}) <= cfg.concurrency

\* c units are executing while a further unit waits for a slot
C2_Witness ==
  /\ cfg.concurrency >= 1
  /\ mpc = "run" /\ li < PhaseN(phase)
  /\ Cardinality({i \in Idx : Executing(phase, i)}) = cfg.concurrency

\* C3: phases are barriers: no unit of a later phase starts while a unit of
\* an earlier phase is still executing.
C3_PhaseBarrier ==
  [][\A p \in {2, 3}, i \in Idx :
       (u[<<p, i>>].pc = "idle" /\ u'[<<p, i>>].pc # "idle") =>
         \A q \in Phases, j \in Idx : q < p => ~Executing(q, j)]_vars

\* C4: once the deadline has fired, no further unit is started.
C4_NoStartAfterDeadline ==
  [][ctxDone => \A x \in Units : u[x].pc = "idle" => u'[x].pc = "idle"]_vars

\* C5: a create unit appends no record while it runs and exactly one record
\* when it returns without having been interrupted by the deadline, however
\* many attempts it made; it never holds more than one record.
C5_OneRecordPerCreate ==
  \A i \in Idx :
    /\ Cardinality(RecsOf(1, i)) <= 1
    /\ (u[<<1, i>>].pc \in {"idle", "req", "sleep", "record"}) => RecsOf(1, i) = {}
    /\ (Returned(1, i) /\ ~u[<<1, i>>].intr) => Cardinality(RecsOf(1, i)) = 1

\* a create unit has returned after three attempts, uninterrupted
C5_Witness ==
  \E i \in Idx :
    /\ Returned(1, i) /\ ~u[<<1, i>>].intr
    /\ u[<<1, i>>].tries >= 3
    /\ Cardinality(RecsOf(1, i)) = 1

\* C6: in every record of every kind, status_code = 0 implies success = false.
C6_ZeroStatusFails ==
  \A k \in 1..Len(results) : results[k].status = 0 => ~results[k].ok

\* a transport error has been recorded for each of the three operations
C6_Witness ==
  \A p \in Phases :
    \E k \in 1..Len(results) : results[k].op = OpName(p) /\ results[k].status = 0

\* C7: when the pool is empty after the create phase and the deadline does
\* not fire, every add_items and get_cart unit still runs and the run ends
\* with exactly addN add_items and getN get_cart records.
C7_EmptyPoolFullPhases ==
  (mpc = "done" /\ ~ctxDone /\ Len(cartIDs) = 0) =>
    /\ CountOp(written, "add_items") = cfg.addN
    /\ CountOp(written, "get_cart") = cfg.getN
    /\ \A p \in {2, 3}, i \in Idx : i < PhaseN(p) => Cardinality(RecsOf(p, i)) = 1

\* a run where every create and the fallback create failed has ended
C7_Witness ==
  /\ mpc = "done" /\ ~ctxDone /\ Len(cartIDs) = 0 /\ fallbackID = 0
  /\ cfg.createN >= 1 /\ cfg.addN >= 1 /\ cfg.getN >= 1
  /\ CountOp(written, "create_cart") = cfg.createN

\* the delay the claims state, computed with the built-in exponentiation
ClaimedDelay(k) == IF 100 * (2 ^ k) < 800 THEN 100 * (2 ^ k) ELSE 800

\* C8: a create whose first k attempts failed and whose attempt k succeeded
\* stops there (k + 1 requests, k <= budget), has slept exactly the k delays
\* min(800, 100 * 2^j), j = 0..k-1, and once returned has exactly one record,
\* with success = true and status_code = 201.
C8_SuccessAfterRetries ==
  \A i \in Idx :
    LET c == u[<<1, i>>] IN
      c.ok =>
        /\ c.fails <= cfg.retries
        /\ c.tries = c.fails + 1
        /\ c.sleeps = [j \in 1..c.fails |-> ClaimedDelay(j - 1)]
        /\ c.pc \in {"record", "pool", "ret", "rel", "done"}
        /\ c.pc = "record" => RecsOf(1, i) = {}
        /\ c.pc # "record" =>
             /\ Cardinality(RecsOf(1, i)) = 1
             /\ \A k \in RecsOf(1, i) : results[k].ok /\ results[k].status = 201

\* 500, 500, 201: recorded once as a success after sleeps of 100 and 200 ms
C8_Witness ==
  \E i \in Idx :
    LET c == u[<<1, i>>] IN
      /\ c.ok /\ c.fails = 2 /\ c.tries = 3 /\ c.pc = "done"
      /\ c.sleeps = <<100, 200>>
      /\ \E k \in RecsOf(1, i) : results[k].ok /\ results[k].status = 201

\* C9: the delay slept after failed attempt k is min(800, 100 * 2^k): with
\* budget 3 the delays between the four attempts are 100, 200, 400; the
\* delays of a unit never decrease and never exceed 800.
C9_BackoffSequence ==
  \A i \in Idx :
    LET sl == u[<<1, i>>].sleeps IN
      /\ \A j \in 1..Len(sl) : sl[j] = ClaimedDelay(j - 1) /\ sl[j] <= 800
      /\ \A j \in 1..(Len(sl) - 1) : sl[j] <= sl[j + 1]
      /\ (cfg.retries = 3 /\ u[<<1, i>>].tries = 4) => SubSeq(sl, 1, 3) = <<100, 200, 400>>

\* with budget 3 a unit is at its fourth attempt, having slept three times
C9_Witness ==
  \E i \in Idx :
    /\ cfg.retries = 3 /\ u[<<1, i>>].tries = 4
    /\ u[<<1, i>>].sleeps = <<100, 200, 400>>

\* what doReq reports for an answer, stated independently
AnswerStatus(a) == IF a.fail THEN 0 ELSE a.code

\* C10: no create unit makes more than budget + 1 attempts; one that returns
\* uninterrupted after only failed attempts has made exactly budget + 1, has
\* one record, with success = false and the status and latency of its last
\* attempt; the pool holds one identifier per successful returned create only.
C10_BudgetExhausted ==
  /\ \A i \in Idx :
       LET c == u[<<1, i>>] IN
         /\ c.tries <= cfg.retries + 1
         /\ (Returned(1, i) /\ ~c.intr /\ ~c.ok) =>
              /\ c.tries = cfg.retries + 1
              /\ c.fails = c.tries
              /\ Cardinality(RecsOf(1, i)) = 1
              /\ \A k \in RecsOf(1, i) :
                   /\ ~results[k].ok
                   /\ results[k].status = AnswerStatus(c.last)
                   /\ results[k].rt = c.last.ms
  /\ Len(cartIDs) = Cardinality({i \in Idx : Returned(1, i) /\ u[<<1, i>>].ok})

\* a create has used its whole budget of three attempts, the last answer
\* differing from a 500, and the deadline has not fired
C10_Witness ==
  \E i \in Idx :
    LET c == u[<<1, i>>] IN
      /\ ~ctxDone /\ Returned(1, i) /\ ~c.ok
      /\ cfg.retries = 2 /\ c.tries = 3
      /\ c.last.code = 201
      /\ Len(cartIDs) = 0

\* main has left the runConcurrent invocation of the create phase
CreatePhaseReturned == mpc \notin {"start", "exitBase"} /\ ~(mpc = "run" /\ phase = 1)

\* the create units whose final answer was a 201 carrying the identifier v
CreatedWith(v) ==
  {i \in Idx : LET a == u[<<1, i>>].last IN
                 /\ u[<<1, i>>].tries > 0
                 /\ ~a.fail /\ a.code = 201 /\ a.valid /\ a.cart = v}

\* C11: once the create phase has returned without deadline, the pool has
\* one element per create_cart record with success = true, every element is
\* positive, and each identifier occurs as often as creates ended on a 201
\* carrying it: failed creates contribute nothing.
C11_PoolIsSuccessfulCreates ==
  (CreatePhaseReturned /\ ~ctxDone) =>
    /\ Len(cartIDs) =
         Cardinality({k \in 1..Len(results) : results[k].op = "create_cart" /\ results[k].ok})
    /\ \A j \in 1..Len(cartIDs) : cartIDs[j] > 0
    /\ \A v \in {7, 8} :
         Cardinality({j \in 1..Len(cartIDs) : cartIDs[j] = v}) = Cardinality(CreatedWith(v))
    /\ \A j \in 1..Len(cartIDs) : cartIDs[j] \in {7, 8}

\* two successful creates both returned 7
C11_Witness ==
  /\ CreatePhaseReturned /\ ~ctxDone
  /\ cfg.createN = 2
  /\ cartIDs = <<7, 7>>

\* C12: a unit i of the add_items or get_cart phase leaves getCartID with
\* pool[i mod len(pool)] of the pool as it is at that moment, the index lying
\* within the pool (the only element when the pool has one), and with the
\* fallback identifier when the pool is empty.
C12_ModuloTarget ==
  [][\A p \in {2, 3}, i \in Idx :
       (u[<<p, i>>].pc = "getid" /\ u'[<<p, i>>].pc # "getid") =>
         LET n == Len(cartIDs) IN
           /\ n > 0 => /\ (i % n) + 1 \in DOMAIN cartIDs
                       /\ u'[<<p, i>>].id = cartIDs[(i % n) + 1]
           /\ n = 1 => u'[<<p, i>>].id = cartIDs[1]
           /\ n = 0 => u'[<<p, i>>].id = fallbackID
           /\ cartIDs' = cartIDs]_vars

\* unit 1 wrapped around a one-element pool
C12_Witness ==
  /\ Len(cartIDs) = 1
  /\ \E p \in {2, 3} : u[<<p, 1>>].pc = "req" /\ u[<<p, 1>>].id = cartIDs[1]

\* C13: main attempts the fallback create exactly when it found the pool
\* empty after the create phase returned; the attempt is a single request
\* that leaves the record list and the pool as they are; main never comes
\* back to the fallback check.
C13_FallbackOnce ==
  [][/\ (mpc = "fallback" /\ mpc' # "fallback") =>
          /\ mpc' \in {"fallbackReq", "run"}
          /\ mpc' = "fallbackReq" <=> Len(cartIDs) = 0
     /\ (mpc = "fallbackReq" /\ mpc' # "fallbackReq") =>
          /\ mpc' = "run" /\ phase' = 2 /\ li' = 0
          /\ results' = results
          /\ cartIDs' = cartIDs
     /\ mpc \notin {"fallback", "fallbackReq"} => mpc' # "fallbackReq"
     /\ ((mpc = "run" /\ phase > 1) \/ mpc = "write" \/ ~Alive) => mpc' # "fallback"]_vars

\* the fallback create succeeded: nothing but fallbackID shows it
C13_Witness ==
  /\ mpc = "run" /\ phase = 2 /\ ~ctxDone
  /\ cfg.createN >= 1
  /\ fallbackID = 7
  /\ cartIDs = <<>>
  /\ Len(results) = cfg.createN

\* what a service that follows the handlers answers for cart identifier cid:
\* an identifier below 1 is rejected with 400 (MySQL handlers) or is not
\* found, 404 (DynamoDB handlers), unless the transport fails
ContractAnswer(cid, a) == a.fail \/ (cid < 1 => a.code \in {400, 404})

\* C14: with an empty pool and a failed fallback create every add_items and
\* get_cart unit targets identifier 0, and its record has success = false
\* whenever the service answered as its handlers do for identifier 0.
C14_SentinelTargetsFail ==
  (Len(cartIDs) = 0 /\ fallbackID = 0) =>
    \A p \in {2, 3}, i \in Idx :
      u[<<p, i>>].pc \notin {"idle", "getid"} =>
        /\ u[<<p, i>>].id = 0
        /\ \A k \in RecsOf(p, i) :
             ContractAnswer(0, u[<<p, i>>].last) => ~results[k].ok

\* every create and the fallback failed; add_items and get_cart got 404
C14_Witness ==
  /\ mpc = "done" /\ Len(cartIDs) = 0 /\ fallbackID = 0
  /\ cfg.createN >= 1
  /\ \A p \in {2, 3} :
       \E k \in 1..Len(written) :
         written[k].op = OpName(p) /\ written[k].status = 404 /\ ~written[k].ok

\* the status code an operation must get to succeed
ExpectedCode(p) == IF p = 1 THEN 201 ELSE IF p = 2 THEN 204 ELSE 200

\* C15: an add_items or get_cart unit never sleeps, issues no second request,
\* has no record before its request is answered and exactly one once it has
\* returned, with success = false when that request failed.
C15_ItemUnitsSingleShot ==
  \A p \in {2, 3}, i \in Idx :
    LET c == u[<<p, i>>] IN
      /\ c.tries <= 1
      /\ c.sleeps = <<>> /\ ~c.intr
      /\ c.pc \in {"idle", "getid", "req"} => c.tries = 0 /\ RecsOf(p, i) = {}
      /\ c.pc = "record" => c.tries = 1 /\ RecsOf(p, i) = {}
      /\ Returned(p, i) =>
           /\ c.tries = 1
           /\ Cardinality(RecsOf(p, i)) = 1
           /\ \A k \in RecsOf(p, i) :
                (c.last.fail \/ c.last.code # ExpectedCode(p)) => ~results[k].ok

\* an add_items unit and a get_cart unit have each returned after a failed
\* request
C15_Witness ==
  \A p \in {2, 3} :
    \E i \in Idx :
      /\ Returned(p, i)
      /\ u[<<p, i>>].last.fail \/ u[<<p, i>>].last.code = 404
      /\ \E k \in RecsOf(p, i) : ~results[k].ok

\* the phase an operation name belongs to
PhaseOf(op) == IF op = "create_cart" THEN 1 ELSE IF op = "add_items" THEN 2 ELSE 3

\* C18: a record has success = true exactly when the final attempt of its
\* unit had no transport error, got the expected status code (201, 204, 200)
\* and, for create_cart, a body that parsed to a positive shopping_cart_id.
C18_SuccessPredicate ==
  \A k \in 1..Len(results) :
    LET p == PhaseOf(results[k].op)
        a == u[<<p, results[k].by>>].last
    IN  results[k].ok <=>
          /\ ~a.fail
          /\ a.code = ExpectedCode(p)
          /\ p = 1 => (a.valid /\ a.cart > 0)

\* a successful create, a create whose 201 was refused for its body and a
\* successful get_cart have been recorded
C18_Witness ==
  /\ \E k \in 1..Len(results) : results[k].op = "create_cart" /\ results[k].ok
  /\ \E k \in 1..Len(results) :
       results[k].op = "create_cart" /\ ~results[k].ok /\ results[k].status = 201
  /\ \E k \in 1..Len(results) : results[k].op = "get_cart" /\ results[k].ok

\* C16: without deadline main, once inside a runConcurrent invocation, gets
\* out of the last one (so every invocation returns), whatever the
\* concurrency (values below 1 included); and when an invocation returns each
\* of its n units has been started and has finished, no other unit of the
\* phase has been started, and its semaphore and wait group are empty.
C16_RunConcurrentReturns ==
  /\ (mpc = "run") ~> (mpc = "write")
  /\ [][\A p \in Phases :
          (mpc = "run" /\ phase = p /\ ~(mpc' = "run" /\ phase' = p)) =>
            /\ \A i \in Idx : u[<<p, i>>].pc = (IF i < PhaseN(p) THEN "done" ELSE "idle")
            /\ \A i \in Idx : i < PhaseN(p) => u[<<p, i>>].tries >= 1
            /\ sem[p] = 0 /\ wg[p] = 0]_vars

\* with a concurrency below 1 the create phase has returned after both units
C16_Witness ==
  /\ cfg.concurrency < 1 /\ cfg.createN = 2
  /\ mpc = "run" /\ phase = 2
  /\ \A i \in Idx : i < 2 => u[<<1, i>>].pc = "done"

\* C17: a run whose deadline has fired still ends normally (it is not
\* aborted; it exits non-zero only when the output cannot be written) and
\* writes at most createN + addN + getN records, at most the configured
\* number of each kind.
C17_DeadlineDegradesOnly ==
  (ctxDone /\ ~Alive) =>
    /\ mpc \in {"done", "exitWrite"}
    /\ Len(written) <= cfg.createN + cfg.addN + cfg.getN
    /\ \A p \in Phases : CountOp(written, OpName(p)) <= PhaseN(p)

\* C19: with the base URL unset the process exits non-zero before any
\* request, record or write; when the output cannot be written it exits
\* non-zero; in every other case it exits zero.
C19_ExitStatus ==
  /\ (cfg.base = "" /\ mpc # "start") =>
       /\ mpc = "exitBase" /\ ExitCode # 0
       /\ \A x \in Units : u[x] = IdleUnit
       /\ results = <<>> /\ cartIDs = <<>> /\ written = <<>> /\ fallbackID = 0
  /\ mpc = "exitWrite" => ExitCode # 0 /\ written = <<>>
  /\ (~Alive /\ cfg.base # "" /\ mpc # "exitWrite") => ExitCode = 0 /\ written = results

\* the least and the greatest sample
MinSample(vs) == CHOOSE x \in {vs[j] : j \in 1..Len(vs)} : \A j \in 1..Len(vs) : x <= vs[j]
MaxSample(vs) == CHOOSE x \in {vs[j] : j \in 1..Len(vs)} : \A j \in 1..Len(vs) : x >= vs[j]

\* C20: on a non-empty sorted sample sequence pct at 0 is the minimum, pct at
\* 100 is the maximum, and pct does not decrease as p grows within [0, 100].
C20_PctEndpointsMonotone ==
  (an.pc = "pctDone" /\ Len(an.vs) > 0 /\ an.p \in 0..100) =>
    /\ an.p = 0 => an.out = 100 * MinSample(an.vs)
    /\ an.p = 100 => an.out = 100 * MaxSample(an.vs)
    /\ \A p2 \in 0..100 : an.p < p2 => an.out <= pct(an.vs, p2)
    /\ \A p1 \in 0..100 : p1 < an.p => pct(an.vs, p1) <= an.out

\* an interpolated percentile strictly between two different samples
C20_Witness ==
  /\ an.pc = "pctDone" /\ Len(an.vs) = 3 /\ an.p = 75
  /\ an.vs[2] < an.vs[3]
  /\ 100 * an.vs[2] < an.out /\ an.out < 100 * an.vs[3]

\* C21: on a single sample pct returns that sample for every p, inside or
\* outside [0, 100]; on any non-empty sequence a p below 0 gives the value
\* at 0 (the minimum) and a p above 100 the value at 100 (the maximum).
C21_SingleSampleAndClamp ==
  (an.pc = "pctDone" /\ Len(an.vs) > 0) =>
    /\ Len(an.vs) = 1 => an.out = 100 * an.vs[1]
    /\ an.p < 0 => an.out = 100 * MinSample(an.vs)
    /\ an.p > 100 => an.out = 100 * MaxSample(an.vs)

\* pct of the single sample 2 at p = -10
C21_Witness ==
  /\ an.pc = "pctDone" /\ an.vs = <<2>> /\ an.p = -10
  /\ an.out = 200

C22_WinnerByMeanDifference ==
  /\ [](an.pc \in {"classified", "winnerDone"} =>
         LET m == mean(an.my)
             d == mean(an.dy)
             \* d - m and m - d against 1, over the common denominator
             dMinusM == d.s * m.n - m.s * d.n
             one == m.n * d.n
         IN  /\ an.winner = "tie" <=> (dMinusM <= one /\ -dMinusM <= one)
             /\ an.winner = "mysql" <=> (dMinusM > one)
             /\ an.winner = "dynamo" <=> (-dMinusM > one)
             /\ an.winner \in {"tie", "mysql", "dynamo"}
             /\ an.mysqlWins + an.dynamoWins + an.ties = an.k)
  /\ [][an.pc = "winner" =>
          /\ (an'.mysqlWins - an.mysqlWins) + (an'.dynamoWins - an.dynamoWins)
               + (an'.ties - an.ties) = 1
          /\ an'.mysqlWins >= an.mysqlWins
          /\ an'.dynamoWins >= an.dynamoWins
          /\ an'.ties >= an.ties]_vars

\* means 1 and 2.5: the first run wins; the three operations ended with one
\* win each and one tie
C22_Witness ==
  /\ an.pc = "winnerDone"
  /\ an.my = <<1>> /\ an.dy = <<2, 3>> /\ an.winner = "mysql"
  /\ an.mysqlWins = 1 /\ an.dynamoWins = 1 /\ an.ties = 1

\* C23: a create unit sleeps only when another attempt remains under the
\* budget: it is never in a backoff after its last allowed attempt, never
\* sleeps more often than the budget, and when it records after budget + 1
\* failed attempts it has slept budget times.
C23_SleepOnlyBeforeRetry ==
  \A i \in Idx :
    LET c == u[<<1, i>>] IN
      /\ c.pc = "sleep" => c.attempt < cfg.retries
      /\ Len(c.sleeps) <= cfg.retries
      /\ (c.pc = "record" /\ ~c.ok) => Len(c.sleeps) = cfg.retries

\* C24: from the moment main reads the record list for the output file,
\* every unit that was started has returned, so the list and the pool no
\* longer change and the file holds the record of every started unit.
C24_AllReturnedAtWrite ==
  /\ [](mpc \in {"write", "done", "exitWrite", "crashed"} =>
         \A x \in Units : u[x].pc = "idle" \/ Returned(x[1], x[2]))
  /\ [][(mpc \in {"write", "done", "exitWrite", "crashed"}) =>
          /\ results' = results
          /\ cartIDs' = cartIDs]_vars
  /\ [](mpc = "done" => written = results)

\* C25: a create unit that leaves its backoff because the deadline fired
\* has made at least one attempt, returns at once, and neither then nor
\* later makes another attempt, appends a record or adds to the pool.
C25_InterruptedBackoffReturns ==
  /\ [](\A i \in Idx :
          LET c == u[<<1, i>>] IN
            c.intr =>
              /\ ctxDone
              /\ c.tries >= 1 /\ c.fails = c.tries /\ ~c.ok
              /\ Returned(1, i)
              /\ RecsOf(1, i) = {})
  /\ [][\A i \in Idx :
          /\ (~u[<<1, i>>].intr /\ u'[<<1, i>>].intr) =>
               /\ u[<<1, i>>].pc = "sleep" /\ u'[<<1, i>>].pc = "ret"
               /\ results' = results /\ cartIDs' = cartIDs
          /\ u[<<1, i>>].intr =>
               /\ u'[<<1, i>>].tries = u[<<1, i>>].tries
               /\ u'[<<1, i>>].pc \notin {"req", "sleep", "record", "pool"}]_vars

\* a unit interrupted in the backoff after its second failed attempt has
\* finished without a record
C25_Witness ==
  \E i \in Idx :
    /\ u[<<1, i>>].intr /\ u[<<1, i>>].tries = 2 /\ u[<<1, i>>].pc = "done"
    /\ RecsOf(1, i) = {}
    /\ cartIDs = <<>>

\* a 201 whose body does not parse or carries no positive shopping_cart_id
BadBody201(a) == ~a.fail /\ a.code = 201 /\ ~(a.valid /\ a.cart > 0)

\* C26: a create attempt answered 201 with an unusable body counts as
\* failed: the unit goes to the backoff and retries while the budget allows,
\* and when it was the last attempt the unit's record has status_code 201
\* and success = false and the unit adds nothing to the pool.
C26_BadBodyIsFailure ==
  /\ [](\A i \in Idx :
          LET c == u[<<1, i>>] IN
            (c.tries > 0 /\ BadBody201(c.last)) =>
              /\ ~c.ok /\ c.fails = c.tries
              /\ c.pc # "pool"
              /\ c.pc = "req" => c.tries <= cfg.retries
              /\ (Returned(1, i) /\ ~c.intr) =>
                   /\ c.tries = cfg.retries + 1
                   /\ Cardinality(RecsOf(1, i)) = 1
                   /\ \A k \in RecsOf(1, i) : results[k].status = 201 /\ ~results[k].ok)
  /\ [][\A i \in Idx :
          /\ (u'[<<1, i>>].tries = u[<<1, i>>].tries + 1 /\ BadBody201(u'[<<1, i>>].last)) =>
               u'[<<1, i>>].pc = "sleep"
          /\ (u[<<1, i>>].pc = "sleep" /\ u[<<1, i>>].tries <= cfg.retries
                /\ u'[<<1, i>>].pc # "sleep" /\ ~u'[<<1, i>>].intr) =>
               u'[<<1, i>>].pc = "req"]_vars

\* with one retry allowed both attempts got a 201 carrying identifier 0: one
\* record, status 201, success = false, and an empty pool
C26_Witness ==
  \E i \in Idx :
    LET c == u[<<1, i>>] IN
      /\ cfg.retries = 1 /\ cfg.createN = 1
      /\ c.pc = "done" /\ ~c.intr /\ c.tries = 2
      /\ c.last.code = 201 /\ c.last.valid /\ c.last.cart = 0
      /\ \E k \in RecsOf(1, i) : results[k].status = 201 /\ ~results[k].ok
      /\ cartIDs = <<>>

\* the units of phase p that have been started
Started(p) == {i \in Idx : u[<<p, i>>].pc # "idle"}

\* C27: in every state of every run, whenever the deadline fires, there are
\* at most createN records tagged create_cart, addN tagged add_items and
\* getN tagged get_cart (no more than units started in the phase), in the
\* record list and in the written file, and the pool has at most as many
\* identifiers as create units were started.
C27_CountsNeverExceed ==
  /\ CountOp(results, "create_cart") <= cfg.createN
  /\ CountOp(results, "add_items") <= cfg.addN
  /\ CountOp(results, "get_cart") <= cfg.getN
  /\ \A p \in Phases :
       /\ CountOp(results, OpName(p)) <= Cardinality(Started(p))
       /\ CountOp(written, OpName(p)) <= CountOp(results, OpName(p))
  /\ Len(results) <= cfg.createN + cfg.addN + cfg.getN
  /\ Len(cartIDs) <= Cardinality(Started(1))
  /\ Cardinality(Started(1)) <= cfg.createN

\* the deadline has fired and the counts of two operations and the pool
\* have reached their bounds
C27_Witness ==
  /\ ctxDone
  /\ cfg.createN = 2 /\ cfg.addN = 1
  /\ CountOp(results, "create_cart") = 2
  /\ CountOp(results, "add_items") = 1
  /\ Len(cartIDs) = 2

\* the units inside a section guarded by resultsMu, by cartIDsMu
InResultsSection == {x \in Units : u[x].pc \in {"recIn", "recHdr", "recOut"}}
InCartIDsSection == {x \in Units : u[x].pc \in {"poolIn", "poolHdr", "poolOut", "idIn", "idOut"}}

\* the units whose record() call, whose pool append has stored its slice
RecordStored ==
  {x \in Units : \/ u[x].pc \in {"recOut", "pool", "poolIn", "poolHdr", "poolOut"}
                 \/ (Returned(x[1], x[2]) /\ ~u[x].intr)}
IDStored ==
  {x \in Units : \/ u[x].pc = "poolOut"
                 \/ (x[1] = 1 /\ Returned(x[1], x[2]) /\ u[x].ok /\ u[x].id > 0)}

\* C28: at most one unit at a time is inside an append to the record list,
\* and at most one inside an append to or a read of the pool; the record
\* list has one element per record() call that has stored, each unit's own
\* once, and the pool one element per pool append that has stored.
C28_ExclusiveAppends ==
  /\ Cardinality(InResultsSection) <= 1
  /\ Cardinality(InCartIDsSection) <= 1
  /\ Len(results) = Cardinality(RecordStored)
  /\ \A x \in RecordStored : Cardinality(RecsOf(x[1], x[2])) = 1
  /\ Len(cartIDs) = Cardinality(IDStored)
  /\ \A v \in {7, 8} :
       Cardinality({j \in 1..Len(cartIDs) : cartIDs[j] = v})
         = Cardinality({x \in IDStored : u[x].id = v})

\* a unit has read the non-empty record list for its append while another
\* waits for resultsMu, and the pool holds the identifier of a create
C28_Witness ==
  \E x, y \in Units :
    /\ u[x].pc = "recHdr" /\ u[y].pc = "record"
    /\ Len(results) >= 1 /\ mtx.hdr[x] = results
    /\ Len(cartIDs) = 1

\* the sum of f over the finite set S
RECURSIVE SumOver(_, _)
SumOver(S, f) ==
  IF S = {} THEN 0
  ELSE LET x == CHOOSE y \in S : TRUE IN f[x] + SumOver(S \ {x}, f)

\* how often v occurs in the sequence s
Occurrences(s, v) == Cardinality({j \in 1..Len(s) : s[j] = v})

\* s is in ascending order
Ascending(s) == \A j \in 1..(Len(s) - 1) : s[j] <= s[j + 1]

\* what the claim asks of one aggregate
AggConsistent(a) ==
  /\ a.countOK <= a.countAll
  /\ Len(a.rtAll) = a.countAll
  /\ Len(a.rtSuccess) = a.countOK
  /\ Ascending(a.rtAll) /\ Ascending(a.rtSuccess)
  /\ \A v \in 0..MaxRt : Occurrences(a.rtSuccess, v) <= Occurrences(a.rtAll, v)

\* C30: the aggregates loadAndAnalyze returns: total.countAll is the number
\* of rows and the sum of the countAll of all operations, unknown ones
\* included; total.countOK is the sum of their countOK; every operation
\* counts its own rows; and in every aggregate countOK <= countAll, rtAll
\* has countAll and rtSuccess countOK samples, both ascending, rtSuccess
\* being a sub-multiset of rtAll.
C30_AggregatesConsistent ==
  an.pc = "loaded" =>
    /\ an.total.countAll = Len(an.rows)
    /\ an.total.countAll = SumOver(DOMAIN an.byOp, [o \in DOMAIN an.byOp |-> an.byOp[o].countAll])
    /\ an.total.countOK = SumOver(DOMAIN an.byOp, [o \in DOMAIN an.byOp |-> an.byOp[o].countOK])
    /\ an.total.countOK = Cardinality({j \in 1..Len(an.rows) : an.rows[j].ok})
    /\ \A o \in DOMAIN an.byOp :
         /\ an.byOp[o].countAll = Cardinality({j \in 1..Len(an.rows) : an.rows[j].op = o})
         /\ AggConsistent(an.byOp[o])
    /\ \A j \in 1..Len(an.rows) : an.rows[j].op \in DOMAIN an.byOp
    /\ {"create_cart", "add_items", "get_cart"} \subseteq DOMAIN an.byOp
    /\ AggConsistent(an.total)

\* rows of an unknown operation and of create_cart, a failure among them,
\* the latencies not in order
C30_Witness ==
  /\ an.pc = "loaded"
  /\ Len(an.rows) = 3
  /\ an.rows[1].op = "other" /\ an.rows[1].rt = 1 /\ an.rows[1].ok
  /\ an.rows[2].op = "create_cart" /\ an.rows[2].rt = 0 /\ an.rows[2].ok
  /\ ~an.rows[3].ok /\ an.rows[3].rt = 1
  /\ an.total.rtAll = <<0, 1, 1>> /\ an.total.rtSuccess = <<0, 1>>
  /\ an.byOp["other"].countAll >= 1

\* C31: a run without a successful sample of the operation (its mean is
\* the sentinel -1) is not the winner of that operation.
C31_NoWinnerWithoutSuccess ==
  an.pc \in {"classified", "winnerDone"} =>
    /\ an.winner = "mysql" => Len(an.my) > 0
    /\ an.winner = "dynamo" => Len(an.dy) > 0

\* ------------------------------------------------- dynamodb.go: the service

\* the cart ids the service hands out, and the ids a request may name: 0,
\* which no cart has, and one id more than the service ever hands out
CartIDs == 1..MaxCarts
RequestCartIDs == 0..(MaxCarts + 1)

\* product_id and quantity of a request body; product 0 and quantity -1 do
\* not pass the validation
ProductIDs == 0..MaxProducts
Quantities == (-1)..MaxQuantity

CartItem(productID, quantity) == [product_id |-> productID, quantity |-> quantity]

\* the loop over cart.Items: the entries of the product are replaced (or
\* dropped when quantity is 0), the others are copied in order
RECURSIVE newItemsFrom(_, _, _, _)
newItemsFrom(items, k, productID, quantity) ==
  IF k > Len(items) THEN <<>>
  ELSE (IF items[k].product_id = productID
        THEN (IF quantity > 0 THEN <<CartItem(productID, quantity)>> ELSE <<>>)
        ELSE <<items[k]>>)
       \o newItemsFrom(items, k + 1, productID, quantity)

\* variant: the item is appended whether or not the product was found
newItemsAlwaysAppend(items, productID, quantity) ==
  LET kept == newItemsFrom(items, 1, productID, quantity)
  IN IF quantity > 0 THEN Append(kept, CartItem(productID, quantity)) ELSE kept

\* the item list UpdateCartItems writes back for the cart it has read
newItems(items, productID, quantity) ==
  LET found == \E k \in 1..Len(items) : items[k].product_id = productID
      kept == newItemsFrom(items, 1, productID, quantity)
  IN IF ~found /\ quantity > 0 THEN Append(kept, CartItem(productID, quantity)) ELSE kept

\* the table with the item of cart c replaced by one holding these items
PutCart(table, c, items) ==
  [x \in DOMAIN table \cup {c} |-> IF x = c THEN items ELSE table[x]]

\* ---- the DynamoDB backend, two add-items requests processed concurrently

\* the two requests; each has its own handler goroutine
Handlers == 1..2

\* a handler's locals: the request, the cart GetCart returned, the status
\* written to the response
IdleHandler ==
  [pc |-> "idle", cartID |-> 0, productID |-> 0, quantity |-> 0, cart |-> <<>>, status |-> 0]

InitDynamo ==
  /\ cfg = NoRunConfig
  /\ InitRun
  /\ an = NoCall
  /\ svc = [backend |-> "dynamodb", table |-> <<>>, h |-> [i \in Handlers |-> IdleHandler]]

\* createShoppingCartHandlerDynamo: a cart without items under a new id (the
\* ids are clock readings: each is larger than the ones before)
DynamoCreateCart ==
  /\ Cardinality(DOMAIN svc.table) < MaxCarts
  /\ svc' = [svc EXCEPT !.table = PutCart(svc.table, Cardinality(DOMAIN svc.table) + 1, <<>>)]
  /\ UNCHANGED <<hvars, an>>

\* addItemsToCartHandlerDynamo up to the call of UpdateCartItems: the body
\* is validated
DynamoReceive(i, c, p, q) ==
  /\ svc.h[i].pc = "idle"
  /\ svc' = [svc EXCEPT !.h[i] =
               IF p < 1 \/ q < 0
               THEN [@ EXCEPT !.pc = "done", !.cartID = c, !.productID = p, !.quantity = q,
                              !.status = 400]
               ELSE [@ EXCEPT !.pc = "get", !.cartID = c, !.productID = p, !.quantity = q]]
  /\ UNCHANGED <<hvars, an>>

\* UpdateCartItems, the GetCart call: the cart as it is stored now, or
\* "cart not found", which the handler answers with 404
DynamoGetCart(i) ==
  /\ svc.h[i].pc = "get"
  /\ svc' = [svc EXCEPT !.h[i] =
               IF svc.h[i].cartID \in DOMAIN svc.table
               THEN [@ EXCEPT !.pc = "put", !.cart = svc.table[svc.h[i].cartID]]
               ELSE [@ EXCEPT !.pc = "done", !.status = 404]]
  /\ UNCHANGED <<hvars, an>>

\* UpdateCartItems from the loop to the PutItem call, which replaces the
\* stored cart whatever it holds by then, and the handler's 204
DynamoPutItem(i) ==
  /\ svc.h[i].pc = "put"
  /\ svc' = [svc EXCEPT
               !.table = PutCart(svc.table, svc.h[i].cartID,
                                 newItems(svc.h[i].cart, svc.h[i].productID, svc.h[i].quantity)),
               !.h[i] = [@ EXCEPT !.pc = "done", !.cart = <<>>, !.status = 204]]
  /\ UNCHANGED <<hvars, an>>

\* GetItem or PutItem returns an error: nothing is written, the handler
\* answers 500
DynamoFails(i) ==
  /\ svc.h[i].pc \in {"get", "put"}
  /\ svc' = [svc EXCEPT !.h[i] = [@ EXCEPT !.pc = "done", !.cart = <<>>, !.status = 500]]
  /\ UNCHANGED <<hvars, an>>

NextDynamo ==
  \/ DynamoCreateCart
  \/ \E i \in Handlers, c \in RequestCartIDs, p \in ProductIDs, q \in Quantities :
       DynamoReceive(i, c, p, q)
  \/ \E i \in Handlers : DynamoGetCart(i)
  \/ \E i \in Handlers : DynamoPutItem(i)
  \/ \E i \in Handlers : DynamoFails(i)

SpecDynamo == InitDynamo /\ [][NextDynamo]_vars

\* the stored cart has an entry of this product with this quantity
Stored(c, p, q) ==
  /\ c \in DOMAIN svc.table
  /\ \E k \in 1..Len(svc.table[c]) : svc.table[c][k] = CartItem(p, q)

\* C32: when the two concurrent requests name the same cart and two
\* different products and both are answered 204, the stored cart holds both
\* products afterwards.
C32_NoLostUpdate ==
  \A i \in Handlers, j \in Handlers :
    (/\ i # j
     /\ svc.h[i].pc = "done" /\ svc.h[i].status = 204 /\ svc.h[i].quantity > 0
     /\ svc.h[j].pc = "done" /\ svc.h[j].status = 204 /\ svc.h[j].quantity > 0
     /\ svc.h[i].cartID = svc.h[j].cartID
     /\ svc.h[i].productID # svc.h[j].productID)
    => Stored(svc.h[i].cartID, svc.h[i].productID, svc.h[i].quantity)

\* ---- either backend, one request at a time

\* cart_items after INSERT ... ON DUPLICATE KEY UPDATE quantity=VALUES(quantity):
\* the primary key is (cart_id, product_id)
InsertOnDuplicateKeyUpdate(rows, c, p, q) ==
  IF \E r \in rows : r.cart_id = c /\ r.product_id = p
  THEN { IF r.cart_id = c /\ r.product_id = p THEN [r EXCEPT !.quantity = q] ELSE r : r \in rows }
  ELSE rows \cup {[cart_id |-> c, product_id |-> p, quantity |-> q]}

\* cart_items after DELETE FROM cart_items WHERE cart_id=? AND product_id=?
DeleteCartItem(rows, c, p) == { r \in rows : ~(r.cart_id = c /\ r.product_id = p) }

\* main: DB_BACKEND selects the backend; the DynamoDB table, or the MySQL
\* tables carts and cart_items, are empty.  The service holds the request
\* being handled (or the last one handled), its status and, in repeat,
\* whether it is the request handled before it, answered 204, once more.
InitUpsert ==
  /\ cfg = NoRunConfig
  /\ InitRun
  /\ an = NoCall
  /\ \E b \in {"mysql", "dynamodb"} :
       svc = [backend |-> b, table |-> <<>>, carts |-> {}, cart_items |-> {},
              pc |-> "idle", cartID |-> 0, productID |-> 0, quantity |-> 0, status |-> 0,
              repeat |-> FALSE]

\* createShoppingCartHandler: INSERT INTO carts, cart_id is AUTO_INCREMENT
createShoppingCartHandler ==
  /\ svc.backend = "mysql" /\ svc.pc = "idle"
  /\ Cardinality(svc.carts) < MaxCarts
  /\ svc' = [svc EXCEPT !.carts = @ \cup {Cardinality(svc.carts) + 1}]
  /\ UNCHANGED <<hvars, an>>

\* createShoppingCartHandlerDynamo: a cart without items under a new id
createShoppingCartHandlerDynamo ==
  /\ svc.backend = "dynamodb" /\ svc.pc = "idle"
  /\ Cardinality(DOMAIN svc.table) < MaxCarts
  /\ svc' = [svc EXCEPT !.table = PutCart(svc.table, Cardinality(DOMAIN svc.table) + 1, <<>>)]
  /\ UNCHANGED <<hvars, an>>

\* a POST /shopping-carts/{c}/items with body {product_id: p, quantity: q}
\* arrives after the answer to the request before it
AddItemsRequest(c, p, q) ==
  /\ svc.backend # "none" /\ svc.pc = "idle"
  /\ svc' = [svc EXCEPT !.pc = "handling", !.cartID = c, !.productID = p, !.quantity = q,
                        !.status = 0,
                        !.repeat = /\ c = svc.cartID /\ p = svc.productID /\ q = svc.quantity
                                   /\ svc.status = 204]
  /\ UNCHANGED <<hvars, an>>

\* addItemsToCartHandler with every statement of the transaction succeeding
addItemsToCartHandler ==
  /\ svc.backend = "mysql" /\ svc.pc = "handling"
  /\ svc' =
       IF svc.cartID < 1 \/ svc.productID < 1 \/ svc.quantity < 0
       THEN [svc EXCEPT !.pc = "idle", !.status = 400]
       ELSE IF svc.cartID \notin svc.carts
       THEN [svc EXCEPT !.pc = "idle", !.status = 404]
       ELSE IF svc.quantity = 0
       THEN [svc EXCEPT !.pc = "idle", !.status = 204,
                        !.cart_items = DeleteCartItem(@, svc.cartID, svc.productID)]
       ELSE [svc EXCEPT !.pc = "idle", !.status = 204,
                        !.cart_items = InsertOnDuplicateKeyUpdate(@, svc.cartID, svc.productID,
                                                                  svc.quantity)]
  /\ UNCHANGED <<hvars, an>>

\* addItemsToCartHandlerDynamo with GetItem and PutItem succeeding and no
\* other request in between
addItemsToCartHandlerDynamo ==
  /\ svc.backend = "dynamodb" /\ svc.pc = "handling"
  /\ svc' =
       IF svc.productID < 1 \/ svc.quantity < 0
       THEN [svc EXCEPT !.pc = "idle", !.status = 400]
       ELSE IF svc.cartID \notin DOMAIN svc.table
       THEN [svc EXCEPT !.pc = "idle", !.status = 404]
       ELSE [svc EXCEPT !.pc = "idle", !.status = 204,
                        !.table = PutCart(@, svc.cartID,
                                          newItems(svc.table[svc.cartID], svc.productID,
                                                   svc.quantity))]
  /\ UNCHANGED <<hvars, an>>

\* the request passes the handler's validation
ValidRequest(s) ==
  /\ s.productID >= 1 /\ s.quantity >= 0
  /\ s.backend = "mysql" => s.cartID >= 1

\* a database call of the handler returns an error: the transaction is
\* rolled back, or PutItem has not written; the answer is 500
AddItemsDBError ==
  /\ svc.backend # "none" /\ svc.pc = "handling"
  /\ ValidRequest(svc)
  /\ svc' = [svc EXCEPT !.pc = "idle", !.status = 500]
  /\ UNCHANGED <<hvars, an>>

NextUpsert ==
  \/ createShoppingCartHandler
  \/ createShoppingCartHandlerDynamo
  \/ \E c \in RequestCartIDs, p \in ProductIDs, q \in Quantities : AddItemsRequest(c, p, q)
  \/ addItemsToCartHandler
  \/ addItemsToCartHandlerDynamo
  \/ AddItemsDBError

SpecUpsert == InitUpsert /\ [][NextUpsert]_vars

\* what the backend stores
Store(s) == <<s.table, s.carts, s.cart_items>>

\* the cart exists in the backend
KnownCart(s, c) == IF s.backend = "dynamodb" THEN c \in DOMAIN s.table ELSE c \in s.carts

\* the entries of cart c: a list in DynamoDB, the rows of cart_items in MySQL
ItemsOf(s, c) ==
  IF s.backend = "dynamodb"
  THEN (IF c \in DOMAIN s.table THEN s.table[c] ELSE <<>>)
  ELSE { r \in s.cart_items : r.cart_id = c }

\* the quantities of the entries cart c has for product p, one per entry
EntriesFor(s, c, p) ==
  IF s.backend = "dynamodb"
  THEN { <<k, ItemsOf(s, c)[k].quantity>> :
           k \in { j \in 1..Len(ItemsOf(s, c)) : ItemsOf(s, c)[j].product_id = p } }
  ELSE { <<r, r.quantity>> : r \in { x \in ItemsOf(s, c) : x.product_id = p } }

\* the entries of cart c for the products other than p
OtherItems(s, c, p) ==
  IF s.backend = "dynamodb"
  THEN SelectSeq(ItemsOf(s, c), LAMBDA e : e.product_id # p)
  ELSE { r \in ItemsOf(s, c) : r.product_id # p }

\* a step in which a handler answers the request it was given
Answers == svc.pc = "handling" /\ svc'.pc = "idle"

====
